---- MODULE Spec2Model ----
(***************************************************************************)
(* MCPClientManager (lib/MCPClientManager.ts): the registry of clients,    *)
(* the reconnect state machine and the fan-out queries, as a state machine. *)
(* An async method is one action per run between two awaits: the step that  *)
(* starts the call runs to its first await, and one step per await resumes  *)
(* it with the outcome of the awaited remote operation.                     *)
(***************************************************************************)
EXTENDS Naturals, Sequences, FiniteSets

\* ---------------------------------------------------------------- bounds
\* addServer calls that pass the name check (caps nextClientId)
MaxClients == 2
\* items a server returns from one list call
MaxItems == 2
\* largest maxReconnectAttempts a manager is configured with
MaxAttempts == 2
\* reconnectClient calls suspended at connect at the same time
MaxInFlight == 2

Names == {"alpha", "beta"}
Transports == {"t1", "t2"}
Errors == {"e1", "e2"}
NoError == "undefined"
NoHook == [clientId |-> <<"client", 0>>, serverName |-> "undefined"]

AggOps == {"listPrompts", "listResources", "listTools"}
FirstOps == {"getPrompt", "readResource", "callTool"}
TargetOps == {"getClientTools", "getClientResources", "getClientPrompts"}
\* the messages of the two errors a targeted query throws before any call
NotFound == "not found"
NotConnected == "is not connected"

VARIABLES
  clients,          \* Map<ClientIdentifier, ClientInfo>: the live entries
  order,            \* the Map's entry list in insertion order, deleted keys kept as holes
  serverNames,      \* Set<string>, in insertion order
  nextClientId,     \* number
  config,           \* MCPClientManagerConfig, fixed by the constructor
  reconnectTimers,  \* Map<ClientIdentifier, timer handle>
  timers,           \* setTimeout callbacks that are pending in the event loop
  hooks,            \* transport.onerror / transport.onclose of every transport
  addCalls,         \* addServer calls suspended at client.connect
  reconCalls,       \* reconnectClient calls suspended at client.connect
  query,            \* the fan-out query suspended at a remote call
  last,             \* the step that ran last and its outcome
  emitted           \* the events the last step emitted, in order

vars == <<clients, order, serverNames, nextClientId, config, reconnectTimers,
          timers, hooks, addCalls, reconCalls, query, last, emitted>>

\* ------------------------------------------------------- JS collections
\* `client-${n}`
ClientId(n) == <<"client", n>>
NoId == ClientId(0)
AllIds == {ClientId(n) : n \in 1..(MaxClients + 1)}

\* Set.has / Set.add / Set.delete on an insertion-ordered Set
SetHas(s, x) == \E i \in 1..Len(s) : s[i] = x
SetAdd(s, x) == IF SetHas(s, x) THEN s ELSE Append(s, x)
SetDelete(s, x) == SelectSeq(s, LAMBDA y : y # x)

\* Map.has / Map.set / Map.delete
MapHas(m, k) == k \in DOMAIN m
MapSet(m, k, v) == [x \in (DOMAIN m) \cup {k} |-> IF x = k THEN v ELSE m[x]]
\* a delete that removes nothing
MapKeeps(m, k) == m
MapDelete(m, k) == [x \in (DOMAIN m) \ {k} |-> m[x]]
EmptyMap == [x \in {} |-> NoId]

\* the entry list of a Map after set(k, ...): a new key goes to the end
EntriesSet(o, m, k) == IF MapHas(m, k) THEN o ELSE Append(o, k)

Range(s) == {s[i] : i \in 1..Len(s)}
Min(S) == CHOOSE x \in S : \A y \in S : x <= y

\* a failed call that deletes the entry of its record
WriteErrorDeletes(m, id, err) == [k \in DOMAIN m \ {id} |-> m[k]]
\* a field of a ClientInfo object written through a reference held across an
\* await: the object of a deleted entry is garbage nothing reads again
WriteError(m, id, err) ==
  IF MapHas(m, id) THEN [m EXCEPT ![id].error = err] ELSE m

\* new Client(info, cfg): an object distinct from every client handle in use;
\* addServer constructs it with the merged configuration, reconnectClient
\* with DEFAULT_CLIENT_CONFIG
NewClient(cfg) ==
  [n |-> Min((1..(MaxClients + MaxInFlight + 2)) \
             ({clients[i].client.n : i \in DOMAIN clients}
                \cup {c.client.n : c \in addCalls}
                \cup {c.client.n : c \in reconCalls})),
   config |-> cfg]

\* ------------------------------------------------------------- events
Event(type, id, name, err, operation) ==
  [type |-> type, clientId |-> id, serverName |-> name, error |-> err,
   operation |-> operation]
ServerAdded(id, name) == Event("serverAdded", id, name, NoError, "")
ConnectionError(name, err) == Event("connectionError", NoId, name, err, "")
TransportErrorEvent(id, name, err) == Event("transportError", id, name, err, "")
TransportClosed(id, name) == Event("transportClosed", id, name, NoError, "")
ClientReconnected(id, name) == Event("clientReconnected", id, name, NoError, "")
ReconnectionError(id, err) == Event("reconnectionError", id, "", err, "")
CloseError(id, err) == Event("closeError", id, "", err, "")
ClientRemoved(id, name) == Event("clientRemoved", id, name, NoError, "")
OperationError(operation, id, name, err) ==
  Event("operationError", id, name, err, operation)

\* the label of a step: the operation, how it ended, and what it returned
Step(op, outcome, id, name, value, calls) ==
  [op |-> op, outcome |-> outcome, clientId |-> id, serverName |-> name,
   value |-> value, calls |-> calls]

NoQuery ==
  [op |-> "none", pos |-> 0, cur |-> NoId, curName |-> "", items |-> <<>>,
   errors |-> <<>>, calls |-> <<>>, skipped |-> <<>>]

\* DEFAULT_MANAGER_CONFIG
DefaultConfig == [autoReconnect |-> FALSE, maxReconnectAttempts |-> 3]
\* the configurations with autoReconnect enabled
AutoConfigs == [autoReconnect : {TRUE}, maxReconnectAttempts : 1..MaxAttempts]

\* new MCPClientManager(cfg)
New(cfg) ==
  /\ clients = EmptyMap
  /\ order = <<>>
  /\ serverNames = <<>>
  /\ nextClientId = 1
  /\ config = cfg
  /\ reconnectTimers = EmptyMap
  /\ timers = {}
  /\ hooks = [t \in Transports |-> [onerror |-> NoHook, onclose |-> NoHook]]
  /\ addCalls = {}
  /\ reconCalls = {}
  /\ query = NoQuery
  /\ last = Step("new", "ok", NoId, "", <<>>, <<>>)
  /\ emitted = <<>>

\* new MCPClientManager()
Init == New(DefaultConfig)
\* new MCPClientManager({autoReconnect: true, maxReconnectAttempts: ...})
InitAuto == \E cfg \in AutoConfigs : New(cfg)

\* a manager constructed with or without autoReconnect
InitAny == \E cfg \in AutoConfigs \cup {DefaultConfig} : New(cfg)

\* ------------------------------------------------- transport hooks
\* setupTransportErrorHandling: each hook is installed only when the
\* transport has none, and captures clientId and serverName
SetupTransportErrorHandling(h, t, id, name) ==
  [h EXCEPT ![t] =
     [onerror |-> IF h[t].onerror = NoHook
                  THEN [clientId |-> id, serverName |-> name] ELSE h[t].onerror,
      onclose |-> IF h[t].onclose = NoHook
                  THEN [clientId |-> id, serverName |-> name] ELSE h[t].onclose]]

\* ------------------------------------------------------- addServer
\* the name check of addServer
NameExists(names, name) == SetHas(names, name)

\* addServer with the id counted before the name check
AddServerCountsFirst(t, name) ==
  /\ nextClientId <= MaxClients
  /\ nextClientId' = nextClientId + 1
  /\ emitted' = <<>>
  /\ IF NameExists(serverNames, name)
     THEN /\ last' = Step("addServer", "duplicate", NoId, name, <<>>, <<>>)
          /\ UNCHANGED <<hooks, addCalls>>
     ELSE /\ hooks' = SetupTransportErrorHandling(hooks, t, ClientId(nextClientId), name)
          /\ addCalls' = addCalls \cup
               {[clientId |-> ClientId(nextClientId), serverName |-> name,
                 transport |-> t, client |-> NewClient("merged")]}
          /\ last' = Step("addServer", "connecting", ClientId(nextClientId), name, <<>>, <<>>)
  /\ UNCHANGED <<clients, order, serverNames, config, reconnectTimers,
                 timers, query, reconCalls>>

\* addServer with the id taken from the number of registered clients
AddServerIdFromSize(t, name) ==
  /\ ~NameExists(serverNames, name)
  /\ nextClientId <= MaxClients
  /\ nextClientId' = nextClientId + 1
  /\ LET id == ClientId(Cardinality(DOMAIN clients) + 1)
     IN /\ hooks' = SetupTransportErrorHandling(hooks, t, id, name)
        /\ addCalls' = addCalls \cup
             {[clientId |-> id, serverName |-> name, transport |-> t,
               client |-> NewClient("merged")]}
        /\ last' = Step("addServer", "connecting", id, name, <<>>, <<>>)
  /\ emitted' = <<>>
  /\ UNCHANGED <<clients, order, serverNames, config, reconnectTimers,
                 timers, query, reconCalls>>

\* addServer up to `await client.connect(transport)`
AddServer(t, name) ==
  IF NameExists(serverNames, name)
  THEN /\ last' = Step("addServer", "duplicate", NoId, name, <<>>, <<>>)
       /\ emitted' = <<>>
       /\ UNCHANGED <<clients, order, serverNames, nextClientId, config,
                      reconnectTimers, timers, hooks, addCalls, reconCalls, query>>
  ELSE /\ nextClientId <= MaxClients
       /\ nextClientId' = nextClientId + 1
       /\ hooks' = SetupTransportErrorHandling(hooks, t, ClientId(nextClientId), name)
       /\ addCalls' = addCalls \cup
            {[clientId |-> ClientId(nextClientId), serverName |-> name,
              transport |-> t, client |-> NewClient("merged")]}
       /\ last' = Step("addServer", "connecting", ClientId(nextClientId), name, <<>>, <<>>)
       /\ emitted' = <<>>
       /\ UNCHANGED <<clients, order, serverNames, config, reconnectTimers,
                      timers, query, reconCalls>>

\* addServer after client.connect resolved
AddServerConnected(c) ==
  /\ c \in addCalls
  /\ addCalls' = addCalls \ {c}
  /\ clients' = MapSet(clients, c.clientId,
       [client |-> c.client, serverName |-> c.serverName,
        transport |-> c.transport, connected |-> TRUE, error |-> NoError])
  /\ order' = EntriesSet(order, clients, c.clientId)
  /\ serverNames' = SetAdd(serverNames, c.serverName)
  /\ emitted' = <<ServerAdded(c.clientId, c.serverName)>>
  /\ last' = Step("addServer", "ok", c.clientId, c.serverName, <<>>, <<>>)
  /\ UNCHANGED <<nextClientId, config, reconnectTimers, timers, hooks,
                 reconCalls, query>>

\* the catch block of an addServer that reserved the name before connecting
AddServerFailedKeepsName(c, err) ==
  /\ c \in addCalls
  /\ addCalls' = addCalls \ {c}
  /\ serverNames' = SetAdd(serverNames, c.serverName)
  /\ emitted' = <<ConnectionError(c.serverName, err)>>
  /\ last' = Step("addServer", "failed", c.clientId, c.serverName, <<err>>, <<>>)
  /\ UNCHANGED <<clients, order, nextClientId, config,
                 reconnectTimers, timers, hooks, reconCalls, query>>

\* the catch block of an addServer that gives its id back
AddServerFailedGivesIdBack(c, err) ==
  /\ c \in addCalls
  /\ addCalls' = addCalls \ {c}
  /\ nextClientId' = nextClientId - 1
  /\ emitted' = <<ConnectionError(c.serverName, err)>>
  /\ last' = Step("addServer", "failed", c.clientId, c.serverName, <<err>>, <<>>)
  /\ UNCHANGED <<clients, order, serverNames, config,
                 reconnectTimers, timers, hooks, reconCalls, query>>

\* addServer after client.connect rejected: the catch block
AddServerFailed(c, err) ==
  /\ c \in addCalls
  /\ addCalls' = addCalls \ {c}
  /\ emitted' = <<ConnectionError(c.serverName, err)>>
  /\ last' = Step("addServer", "failed", c.clientId, c.serverName, <<err>>, <<>>)
  /\ UNCHANGED <<clients, order, serverNames, nextClientId, config,
                 reconnectTimers, timers, hooks, reconCalls, query>>

\* ------------------------------------------------- reconnect timers
\* the pending timers whose callback reconnects id
TimersIn(tm, id) == {x \in tm : x.clientId = id}

\* a clearTimeout that cancels nothing
ClearTimeoutForgets(tm, handle) == tm

\* clearTimeout(handle): a handle that already fired is not pending
ClearTimeout(tm, handle) == {x \in tm : x.handle # handle}

\* the Timeout object setTimeout returns: distinct from every handle that is
\* pending or still referenced by reconnectTimers
NewHandle(tm, rt) ==
  Min((1..(2 * MaxClients + MaxInFlight + 3)) \
      ({x.handle : x \in tm} \cup {rt[i] : i \in DOMAIN rt}))

\* an attempt check that allows one attempt more
MaxAttemptsReachedLate(attemptCount) == attemptCount > config.maxReconnectAttempts

\* the attempt check of scheduleReconnect
MaxAttemptsReached(attemptCount) == attemptCount >= config.maxReconnectAttempts

\* scheduleReconnect(clientId, attemptCount) on the pending timers tm and the
\* reconnectTimers map rt
ScheduleReconnect(tm, rt, id, attemptCount) ==
  LET cleared == IF MapHas(rt, id) THEN ClearTimeout(tm, rt[id]) ELSE tm
      handle == NewHandle(cleared, MapDelete(rt, id))
  IN IF MaxAttemptsReached(attemptCount)
     THEN [timers |-> cleared, reconnectTimers |-> rt]
     ELSE [timers |-> cleared \cup
                      {[handle |-> handle, clientId |-> id,
                        attemptCount |-> attemptCount]},
           reconnectTimers |-> MapSet(rt, id, handle)]

\* an onclose callback that does not look at config.autoReconnect
OnCloseAlwaysSchedules(cl, tm, rt, hook) ==
  IF hook # NoHook /\ MapHas(cl, hook.clientId)
  THEN LET s == ScheduleReconnect(tm, rt, hook.clientId, 0)
       IN [clients |-> [cl EXCEPT ![hook.clientId].connected = FALSE],
           timers |-> s.timers, reconnectTimers |-> s.reconnectTimers,
           emitted |-> <<TransportClosed(hook.clientId, hook.serverName)>>]
  ELSE [clients |-> cl, timers |-> tm, reconnectTimers |-> rt, emitted |-> <<>>]

\* the transport.onclose callback installed by setupTransportErrorHandling,
\* run on the registry cl, the pending timers tm and the map rt
OnClose(cl, tm, rt, hook) ==
  IF hook # NoHook /\ MapHas(cl, hook.clientId)
  THEN LET s == IF config.autoReconnect
                THEN ScheduleReconnect(tm, rt, hook.clientId, 0)
                ELSE [timers |-> tm, reconnectTimers |-> rt]
       IN [clients |-> [cl EXCEPT ![hook.clientId].connected = FALSE],
           timers |-> s.timers, reconnectTimers |-> s.reconnectTimers,
           emitted |-> <<TransportClosed(hook.clientId, hook.serverName)>>]
  ELSE [clients |-> cl, timers |-> tm, reconnectTimers |-> rt, emitted |-> <<>>]

\* the transport fires its close hook
TransportClose(t) ==
  /\ hooks[t].onclose # NoHook
  /\ LET r == OnClose(clients, timers, reconnectTimers, hooks[t].onclose)
     IN /\ clients' = r.clients
        /\ timers' = r.timers
        /\ reconnectTimers' = r.reconnectTimers
        /\ emitted' = r.emitted
  /\ last' = Step("onclose", IF MapHas(clients, hooks[t].onclose.clientId)
                             THEN "closed" ELSE "ignored",
                  hooks[t].onclose.clientId, hooks[t].onclose.serverName, <<>>, <<>>)
  /\ UNCHANGED <<order, serverNames, nextClientId, config, hooks, addCalls,
                 reconCalls, query>>

\* an onerror callback that also marks the record disconnected
TransportErrorDisconnects(t, err) ==
  /\ hooks[t].onerror # NoHook
  /\ LET h == hooks[t].onerror
     IN IF MapHas(clients, h.clientId)
        THEN /\ clients' = [clients EXCEPT ![h.clientId].error = err,
                                           ![h.clientId].connected = FALSE]
             /\ emitted' = <<TransportErrorEvent(h.clientId, h.serverName, err)>>
             /\ last' = Step("onerror", "recorded", h.clientId, h.serverName, <<err>>, <<>>)
        ELSE /\ clients' = clients
             /\ emitted' = <<>>
             /\ last' = Step("onerror", "ignored", h.clientId, h.serverName, <<err>>, <<>>)
  /\ UNCHANGED <<order, serverNames, nextClientId, config, reconnectTimers,
                 timers, hooks, addCalls, reconCalls, query>>

\* the transport fires its error hook: the transport.onerror callback
TransportError(t, err) ==
  /\ hooks[t].onerror # NoHook
  /\ LET h == hooks[t].onerror
     IN IF MapHas(clients, h.clientId)
        THEN /\ clients' = [clients EXCEPT ![h.clientId].error = err]
             /\ emitted' = <<TransportErrorEvent(h.clientId, h.serverName, err)>>
             /\ last' = Step("onerror", "recorded", h.clientId, h.serverName, <<err>>, <<>>)
        ELSE /\ clients' = clients
             /\ emitted' = <<>>
             /\ last' = Step("onerror", "ignored", h.clientId, h.serverName, <<err>>, <<>>)
  /\ UNCHANGED <<order, serverNames, nextClientId, config, reconnectTimers,
                 timers, hooks, addCalls, reconCalls, query>>

\* ------------------------------------------------------ reconnectClient
\* a reconnectClient call suspended at client.connect
ReconCall(id, info, source, attemptCount) ==
  [clientId |-> id, serverName |-> info.serverName, transport |-> info.transport,
   client |-> NewClient("default"), source |-> source, attemptCount |-> attemptCount]

\* reconnectClient without the test of clientInfo.connected
ReconnectClientAlwaysConnects(id) ==
  /\ IF ~MapHas(clients, id)
     THEN /\ last' = Step("reconnectClient", "false", id, "", <<>>, <<>>)
          /\ UNCHANGED <<hooks, reconCalls>>
     ELSE /\ Cardinality(reconCalls) < MaxInFlight
          /\ hooks' = SetupTransportErrorHandling(hooks, clients[id].transport, id,
                                                  clients[id].serverName)
          /\ reconCalls' = reconCalls \cup {ReconCall(id, clients[id], "manual", 0)}
          /\ last' = Step("reconnectClient", "connecting", id, clients[id].serverName, <<>>, <<>>)
  /\ emitted' = <<>>
  /\ UNCHANGED <<clients, order, serverNames, nextClientId, config,
                 reconnectTimers, timers, addCalls, query>>

\* reconnectClient(clientId) called by the user, up to client.connect
ReconnectClient(id) ==
  /\ IF ~MapHas(clients, id)
     THEN /\ last' = Step("reconnectClient", "false", id, "", <<>>, <<>>)
          /\ UNCHANGED <<hooks, reconCalls>>
     ELSE IF clients[id].connected
     THEN /\ last' = Step("reconnectClient", "true", id, clients[id].serverName, <<>>, <<>>)
          /\ UNCHANGED <<hooks, reconCalls>>
     ELSE /\ Cardinality(reconCalls) < MaxInFlight
          /\ hooks' = SetupTransportErrorHandling(hooks, clients[id].transport, id,
                                                  clients[id].serverName)
          /\ reconCalls' = reconCalls \cup {ReconCall(id, clients[id], "manual", 0)}
          /\ last' = Step("reconnectClient", "connecting", id, clients[id].serverName, <<>>, <<>>)
  /\ emitted' = <<>>
  /\ UNCHANGED <<clients, order, serverNames, nextClientId, config,
                 reconnectTimers, timers, addCalls, query>>

\* a reconnect timer fires: the setTimeout callback of scheduleReconnect, up
\* to client.connect, or to its end when reconnectClient returns at once
TimerFires(x) ==
  /\ x \in timers
  /\ IF ~MapHas(clients, x.clientId)
     THEN LET s == IF config.autoReconnect
                   THEN ScheduleReconnect(timers \ {x}, reconnectTimers,
                                          x.clientId, x.attemptCount + 1)
                   ELSE [timers |-> timers \ {x}, reconnectTimers |-> reconnectTimers]
          IN /\ timers' = s.timers
             /\ reconnectTimers' = s.reconnectTimers
             /\ last' = Step("timer", "false", x.clientId, "", <<>>, <<>>)
             /\ UNCHANGED <<hooks, reconCalls>>
     ELSE IF clients[x.clientId].connected
     THEN /\ timers' = timers \ {x}
          /\ last' = Step("timer", "true", x.clientId, clients[x.clientId].serverName, <<>>, <<>>)
          /\ UNCHANGED <<hooks, reconCalls, reconnectTimers>>
     ELSE /\ Cardinality(reconCalls) < MaxInFlight
          /\ timers' = timers \ {x}
          /\ hooks' = SetupTransportErrorHandling(hooks, clients[x.clientId].transport,
                         x.clientId, clients[x.clientId].serverName)
          /\ reconCalls' = reconCalls \cup
               {ReconCall(x.clientId, clients[x.clientId], "timer", x.attemptCount)}
          /\ last' = Step("timer", "connecting", x.clientId,
                          clients[x.clientId].serverName, <<>>, <<>>)
          /\ UNCHANGED reconnectTimers
  /\ emitted' = <<>>
  /\ UNCHANGED <<clients, order, serverNames, nextClientId, config, addCalls, query>>

\* an update that leaves the error of the record in place
ReconnectedKeepsError(info, client) ==
  [info EXCEPT !.client = client, !.connected = TRUE]

\* the fields reconnectClient updates after a successful connect, through
\* the reference it holds since before the await
Reconnected(info, client) ==
  [info EXCEPT !.client = client, !.connected = TRUE, !.error = NoError]

\* a reconnectClient that stores the record again after the connect
ReconnectConnectedStores(c) ==
  /\ c \in reconCalls
  /\ reconCalls' = reconCalls \ {c}
  /\ clients' = MapSet(clients, c.clientId,
       [client |-> c.client, serverName |-> c.serverName,
        transport |-> c.transport, connected |-> TRUE, error |-> NoError])
  /\ emitted' = <<ClientReconnected(c.clientId, c.serverName)>>
  /\ last' = Step(IF c.source = "timer" THEN "timer" ELSE "reconnectClient",
                  "true", c.clientId, c.serverName, <<>>, <<>>)
  /\ UNCHANGED <<order, serverNames, nextClientId, config, reconnectTimers,
                 timers, hooks, addCalls, query>>

\* reconnectClient after client.connect resolved
ReconnectConnected(c) ==
  /\ c \in reconCalls
  /\ reconCalls' = reconCalls \ {c}
  /\ clients' = IF MapHas(clients, c.clientId)
                THEN [clients EXCEPT ![c.clientId] = Reconnected(@, c.client)]
                ELSE clients
  /\ emitted' = <<ClientReconnected(c.clientId, c.serverName)>>
  /\ last' = Step(IF c.source = "timer" THEN "timer" ELSE "reconnectClient",
                  "true", c.clientId, c.serverName, <<>>, <<>>)
  /\ UNCHANGED <<order, serverNames, nextClientId, config, reconnectTimers,
                 timers, hooks, addCalls, query>>

\* a failed attempt after which the timer's callback starts over at attempt 0
ReconnectFailedStartsOver(c, err) ==
  /\ c \in reconCalls
  /\ reconCalls' = reconCalls \ {c}
  /\ emitted' = <<ReconnectionError(c.clientId, err)>>
  /\ LET s == IF c.source = "timer" /\ config.autoReconnect
              THEN ScheduleReconnect(timers, reconnectTimers, c.clientId, 0)
              ELSE [timers |-> timers, reconnectTimers |-> reconnectTimers]
     IN /\ timers' = s.timers
        /\ reconnectTimers' = s.reconnectTimers
  /\ last' = Step(IF c.source = "timer" THEN "timer" ELSE "reconnectClient",
                  "false", c.clientId, c.serverName, <<err>>, <<>>)
  /\ UNCHANGED <<clients, order, serverNames, nextClientId, config, hooks,
                 addCalls, query>>

\* reconnectClient after client.connect rejected; a timer's callback then
\* schedules the next attempt
ReconnectFailed(c, err) ==
  /\ c \in reconCalls
  /\ reconCalls' = reconCalls \ {c}
  /\ emitted' = <<ReconnectionError(c.clientId, err)>>
  /\ LET s == IF c.source = "timer" /\ config.autoReconnect
              THEN ScheduleReconnect(timers, reconnectTimers, c.clientId,
                                     c.attemptCount + 1)
              ELSE [timers |-> timers, reconnectTimers |-> reconnectTimers]
     IN /\ timers' = s.timers
        /\ reconnectTimers' = s.reconnectTimers
  /\ last' = Step(IF c.source = "timer" THEN "timer" ELSE "reconnectClient",
                  "false", c.clientId, c.serverName, <<err>>, <<>>)
  /\ UNCHANGED <<clients, order, serverNames, nextClientId, config, hooks,
                 addCalls, query>>

\* --------------------------------------------------------- removeClient
\* what transport.close() does: before it returns it may run the close hook
\* and it may throw; or it returns a promise, which may reject. removeClient
\* does not await the promise, so a rejection reaches nothing in the manager
CloseOutcomes ==
  {o \in [fires : BOOLEAN, throws : Errors \cup {NoError},
          rejects : Errors \cup {NoError}] :
     o.throws = NoError \/ o.rejects = NoError}

\* removeClient that leaves the name registered
NamesKept(names, name) == names

\* the name removeClient takes out of the registry
NamesAfterRemove(names, name) == SetDelete(names, name)

\* removeClient that leaves the pending reconnect timer alone
RemoveClientKeepsTimer(id, close) ==
  IF ~MapHas(clients, id)
  THEN /\ last' = Step("removeClient", "false", id, "", <<>>, <<>>)
       /\ emitted' = <<>>
       /\ UNCHANGED <<clients, order, serverNames, nextClientId, config,
                      reconnectTimers, timers, hooks, addCalls, reconCalls, query>>
  ELSE LET info == clients[id]
           closing == info.connected
           r == IF closing /\ close.fires
                THEN OnClose(clients, timers, reconnectTimers,
                             hooks[info.transport].onclose)
                ELSE [clients |-> clients, timers |-> timers,
                      reconnectTimers |-> reconnectTimers, emitted |-> <<>>]
           thrown == IF closing /\ close.throws # NoError
                     THEN <<CloseError(id, close.throws)>> ELSE <<>>
       IN /\ serverNames' = NamesAfterRemove(serverNames, info.serverName)
          /\ clients' = MapDelete(r.clients, id)
          /\ timers' = r.timers
          /\ reconnectTimers' = r.reconnectTimers
          /\ emitted' = r.emitted \o thrown \o <<ClientRemoved(id, info.serverName)>>
          /\ last' = Step("removeClient", "true", id, info.serverName,
                          IF TimersIn(timers, id) # {} THEN <<"timer">> ELSE <<>>, <<>>)
          /\ UNCHANGED <<order, nextClientId, config, hooks, addCalls, reconCalls, query>>

\* removeClient(id); the label's value tells whether a pending timer was
\* cancelled
RemoveClient(id, close) ==
  IF ~MapHas(clients, id)
  THEN /\ last' = Step("removeClient", "false", id, "", <<>>, <<>>)
       /\ emitted' = <<>>
       /\ UNCHANGED <<clients, order, serverNames, nextClientId, config,
                      reconnectTimers, timers, hooks, addCalls, reconCalls, query>>
  ELSE LET info == clients[id]
           tm1 == IF MapHas(reconnectTimers, id)
                  THEN ClearTimeout(timers, reconnectTimers[id]) ELSE timers
           rt1 == MapDelete(reconnectTimers, id)
           closing == info.connected
           r == IF closing /\ close.fires
                THEN OnClose(clients, tm1, rt1, hooks[info.transport].onclose)
                ELSE [clients |-> clients, timers |-> tm1, reconnectTimers |-> rt1,
                      emitted |-> <<>>]
           thrown == IF closing /\ close.throws # NoError
                     THEN <<CloseError(id, close.throws)>> ELSE <<>>
       IN /\ serverNames' = NamesAfterRemove(serverNames, info.serverName)
          /\ clients' = MapDelete(r.clients, id)
          /\ timers' = r.timers
          /\ reconnectTimers' = r.reconnectTimers
          /\ emitted' = r.emitted \o thrown \o <<ClientRemoved(id, info.serverName)>>
          /\ last' = Step("removeClient", "true", id, info.serverName,
                          IF tm1 # timers THEN <<"timer">> ELSE <<>>, <<>>)
          /\ UNCHANGED <<order, nextClientId, config, hooks, addCalls, reconCalls, query>>

\* ------------------------------------------------- throwing subscribers
\* emit() runs the subscribers of an event inside the emitting method: what a
\* subscriber throws comes out of the call of emit
\* addServer after client.connect resolved, with a subscriber of serverAdded
\* that throws err: the emit is inside the try, the catch block emits
\* connectionError and throws
AddServerSubscriberThrows(c, err) ==
  /\ c \in addCalls
  /\ addCalls' = addCalls \ {c}
  /\ clients' = MapSet(clients, c.clientId,
       [client |-> c.client, serverName |-> c.serverName,
        transport |-> c.transport, connected |-> TRUE, error |-> NoError])
  /\ order' = EntriesSet(order, clients, c.clientId)
  /\ serverNames' = SetAdd(serverNames, c.serverName)
  /\ emitted' = <<ServerAdded(c.clientId, c.serverName),
                  ConnectionError(c.serverName, err)>>
  /\ last' = Step("addServer", "failed", c.clientId, c.serverName, <<err>>, <<>>)
  /\ UNCHANGED <<nextClientId, config, reconnectTimers, timers, hooks,
                 reconCalls, query>>

\* removeClient of a registered record with a subscriber of the event type
\* (closeError or clientRemoved) that throws err: removeClient ends at that
\* emit
RemoveClientSubscriberThrows(id, close, type, err) ==
  /\ MapHas(clients, id)
  /\ type \in {"closeError", "clientRemoved"}
  /\ LET info == clients[id]
         tm1 == IF MapHas(reconnectTimers, id)
                THEN ClearTimeout(timers, reconnectTimers[id]) ELSE timers
         rt1 == MapDelete(reconnectTimers, id)
         closing == info.connected
         r == IF closing /\ close.fires
              THEN OnClose(clients, tm1, rt1, hooks[info.transport].onclose)
              ELSE [clients |-> clients, timers |-> tm1, reconnectTimers |-> rt1,
                    emitted |-> <<>>]
         thrown == IF closing /\ close.throws # NoError
                   THEN <<CloseError(id, close.throws)>> ELSE <<>>
     IN /\ type = "closeError" => thrown # <<>>
        /\ serverNames' = NamesAfterRemove(serverNames, info.serverName)
        /\ clients' = IF type = "closeError" THEN r.clients
                      ELSE MapDelete(r.clients, id)
        /\ timers' = r.timers
        /\ reconnectTimers' = r.reconnectTimers
        /\ emitted' = IF type = "closeError" THEN r.emitted \o thrown
                      ELSE r.emitted \o thrown \o <<ClientRemoved(id, info.serverName)>>
        /\ last' = Step("removeClient", "threw", id, info.serverName, <<err>>, <<>>)
  /\ UNCHANGED <<order, nextClientId, config, hooks, addCalls, reconCalls, query>>

\* the transport fires its close hook, with a subscriber of transportClosed
\* that throws err: the callback ends before scheduleReconnect
TransportCloseSubscriberThrows(t, err) ==
  /\ hooks[t].onclose # NoHook
  /\ MapHas(clients, hooks[t].onclose.clientId)
  /\ clients' = [clients EXCEPT ![hooks[t].onclose.clientId].connected = FALSE]
  /\ emitted' = <<TransportClosed(hooks[t].onclose.clientId,
                                  hooks[t].onclose.serverName)>>
  /\ last' = Step("onclose", "threw", hooks[t].onclose.clientId,
                  hooks[t].onclose.serverName, <<err>>, <<>>)
  /\ UNCHANGED <<order, serverNames, nextClientId, config, reconnectTimers,
                 timers, hooks, addCalls, reconCalls, query>>

\* reconnectClient after client.connect resolved, with a subscriber of
\* clientReconnected that throws err: the emit is inside the try, the catch
\* block emits reconnectionError and returns false
ReconnectConnectedSubscriberThrows(c, err) ==
  /\ c \in reconCalls
  /\ reconCalls' = reconCalls \ {c}
  /\ clients' = IF MapHas(clients, c.clientId)
                THEN [clients EXCEPT ![c.clientId] = Reconnected(@, c.client)]
                ELSE clients
  /\ emitted' = <<ClientReconnected(c.clientId, c.serverName),
                  ReconnectionError(c.clientId, err)>>
  /\ LET s == IF c.source = "timer" /\ config.autoReconnect
              THEN ScheduleReconnect(timers, reconnectTimers, c.clientId,
                                     c.attemptCount + 1)
              ELSE [timers |-> timers, reconnectTimers |-> reconnectTimers]
     IN /\ timers' = s.timers
        /\ reconnectTimers' = s.reconnectTimers
  /\ last' = Step(IF c.source = "timer" THEN "timer" ELSE "reconnectClient",
                  "false", c.clientId, c.serverName, <<err>>, <<>>)
  /\ UNCHANGED <<order, serverNames, nextClientId, config, hooks, addCalls, query>>

\* reconnectClient after client.connect rejected with err, with a subscriber
\* of reconnectionError that throws thrown: reconnectClient rejects, and the
\* catch block of a timer's callback schedules the next attempt
ReconnectFailedSubscriberThrows(c, err, thrown) ==
  /\ c \in reconCalls
  /\ reconCalls' = reconCalls \ {c}
  /\ emitted' = <<ReconnectionError(c.clientId, err)>>
  /\ LET s == IF c.source = "timer"
              THEN ScheduleReconnect(timers, reconnectTimers, c.clientId,
                                     c.attemptCount + 1)
              ELSE [timers |-> timers, reconnectTimers |-> reconnectTimers]
     IN /\ timers' = s.timers
        /\ reconnectTimers' = s.reconnectTimers
  /\ last' = Step(IF c.source = "timer" THEN "timer" ELSE "reconnectClient",
                  "threw", c.clientId, c.serverName, <<thrown>>, <<>>)
  /\ UNCHANGED <<clients, order, serverNames, nextClientId, config, hooks,
                 addCalls, query>>

\* ------------------------------------------------------ fan-out queries
\* the items a server answers a list call with: n items of its own, in order
Items(id, n) == [k \in 1..n |-> [src |-> id, k |-> k]]
\* the answers of a list call: an object whose list field is an array, empty or
\* of MaxItems items, or is no array
Responses == {[array |-> TRUE, n |-> n] : n \in {0, MaxItems}}
               \cup {[array |-> FALSE, n |-> 0]}

\* the loop without the test of clientInfo.connected
RECURSIVE VisitAll(_, _, _)
VisitAll(cl, o, i) ==
  IF i > Len(o) THEN [pos |-> i, skipped |-> <<>>]
  ELSE IF ~MapHas(cl, o[i]) THEN VisitAll(cl, o, i + 1)
  ELSE [pos |-> i, skipped |-> <<>>]

\* `for (const [id, clientInfo] of this.clients.entries())` from entry i on:
\* deleted entries are not iterated, disconnected clients are skipped by
\* `continue`; pos is the entry of the next connected client, or past the end
RECURSIVE Visit(_, _, _)
Visit(cl, o, i) ==
  IF i > Len(o) THEN [pos |-> i, skipped |-> <<>>]
  ELSE IF ~MapHas(cl, o[i]) THEN Visit(cl, o, i + 1)
  ELSE IF ~cl[o[i]].connected
       THEN LET r == Visit(cl, o, i + 1)
            IN [pos |-> r.pos, skipped |-> <<o[i]>> \o r.skipped]
       ELSE [pos |-> i, skipped |-> <<>>]

\* the test after the loop of an aggregating query
AggregateThrows(errors, items) == Len(errors) > 0 /\ Len(items) = 0

\* the items of an answer put in front of the list (unshift)
UnshiftItems(all, items) == items \o all

\* where the list of an aggregating query gets the items of one answer
PushItems(all, items) == all \o items

\* the error values in the reverse of the order they were pushed
ErrorsReversed(errors) ==
  [i \in 1..Len(errors) |-> errors[Len(errors) + 1 - i].error]

\* the error values of the AggregateError: errors.map(e => e.error)
ErrorsOf(errors) == [i \in 1..Len(errors) |-> errors[i].error]

\* the loop of a fan-out query q from the entry after q.pos, on the registry
\* cl: up to the next remote call, or to the end of the method
Proceed(q, cl) ==
  LET v == Visit(cl, order, q.pos + 1)
  IN IF v.pos <= Len(order)
     THEN /\ query' = [q EXCEPT !.pos = v.pos, !.cur = order[v.pos],
                                !.curName = cl[order[v.pos]].serverName,
                                !.skipped = q.skipped \o v.skipped]
          /\ last' = Step(q.op, "awaiting", order[v.pos],
                          cl[order[v.pos]].serverName, <<>>, q.calls)
     ELSE /\ query' = NoQuery
          /\ last' = IF q.op \in AggOps /\ ~AggregateThrows(q.errors, q.items)
                     THEN Step(q.op, "returned", NoId, "", q.items, q.calls)
                     ELSE Step(q.op, "threw", NoId, "", ErrorsOf(q.errors), q.calls)

\* listPrompts / listResources / listTools / getPrompt / readResource /
\* callTool, up to the first remote call
QueryBegins(op) ==
  /\ query = NoQuery
  /\ Proceed([NoQuery EXCEPT !.op = op], clients)
  /\ emitted' = <<>>
  /\ UNCHANGED <<clients, order, serverNames, nextClientId, config,
                 reconnectTimers, timers, hooks, addCalls, reconCalls>>

\* an aggregating query after its remote call resolved
ListCallResolved(resp) ==
  /\ query.op \in AggOps
  /\ LET got == IF resp.array THEN Items(query.cur, resp.n) ELSE <<>>
     IN Proceed([query EXCEPT
                   !.items = IF resp.array THEN PushItems(query.items, got)
                             ELSE query.items,
                   !.calls = Append(query.calls,
                       [clientId |-> query.cur, ok |-> TRUE, value |-> got])],
                clients)
  /\ emitted' = <<>>
  /\ UNCHANGED <<clients, order, serverNames, nextClientId, config,
                 reconnectTimers, timers, hooks, addCalls, reconCalls>>

\* a first-responder loop that a resolved call does not end
FirstCallResolvedGoesOn ==
  /\ query.op \in FirstOps
  /\ Proceed([query EXCEPT
                !.calls = Append(query.calls,
                    [clientId |-> query.cur, ok |-> TRUE,
                     value |-> <<[src |-> query.cur, k |-> 0]>>])],
             clients)
  /\ emitted' = <<>>
  /\ UNCHANGED <<clients, order, serverNames, nextClientId, config,
                 reconnectTimers, timers, hooks, addCalls, reconCalls>>

\* a first-responder query after its remote call resolved: it returns
FirstCallResolved ==
  /\ query.op \in FirstOps
  /\ query' = NoQuery
  /\ last' = Step(query.op, "returned", query.cur, query.curName,
                  <<[src |-> query.cur, k |-> 0]>>,
                  Append(query.calls, [clientId |-> query.cur, ok |-> TRUE,
                                       value |-> <<[src |-> query.cur, k |-> 0]>>]))
  /\ emitted' = <<>>
  /\ UNCHANGED <<clients, order, serverNames, nextClientId, config,
                 reconnectTimers, timers, hooks, addCalls, reconCalls>>

\* the catch block of a loop that a rejected call ends
CallRejectedEndsPass(err) ==
  /\ query.op \in AggOps \cup FirstOps
  /\ clients' = IF query.op \in AggOps
                THEN WriteError(clients, query.cur, err)
                ELSE clients
  /\ emitted' = <<OperationError(query.op, query.cur, query.curName, err)>>
  /\ Proceed([query EXCEPT
                !.pos = Len(order),
                !.errors = Append(query.errors,
                                  [clientId |-> query.cur, error |-> err]),
                !.calls = Append(query.calls,
                    [clientId |-> query.cur, ok |-> FALSE, value |-> <<>>])],
             clients')
  /\ UNCHANGED <<order, serverNames, nextClientId, config, reconnectTimers,
                 timers, hooks, addCalls, reconCalls>>

\* a fan-out query after its remote call rejected: the catch block, then the
\* loop goes on
CallRejected(err) ==
  /\ query.op \in AggOps \cup FirstOps
  /\ clients' = IF query.op \in AggOps
                THEN WriteError(clients, query.cur, err)
                ELSE clients
  /\ emitted' = <<OperationError(query.op, query.cur, query.curName, err)>>
  /\ Proceed([query EXCEPT
                !.errors = Append(query.errors,
                                  [clientId |-> query.cur, error |-> err]),
                !.calls = Append(query.calls,
                    [clientId |-> query.cur, ok |-> FALSE, value |-> <<>>])],
             clients')
  /\ UNCHANGED <<order, serverNames, nextClientId, config, reconnectTimers,
                 timers, hooks, addCalls, reconCalls>>

\* ----------------------------------------------------- targeted queries
\* a targeted query that calls a record whatever its connection state
GetClientBeginsNoConnectedTest(op, id) ==
  /\ query = NoQuery
  /\ IF ~MapHas(clients, id)
     THEN /\ query' = NoQuery
          /\ last' = Step(op, "threw", id, "", <<NotFound>>, <<>>)
     ELSE /\ query' = [NoQuery EXCEPT !.op = op, !.cur = id,
                                      !.curName = clients[id].serverName]
          /\ last' = Step(op, "awaiting", id, clients[id].serverName, <<>>, <<>>)
  /\ emitted' = <<>>
  /\ UNCHANGED <<clients, order, serverNames, nextClientId, config,
                 reconnectTimers, timers, hooks, addCalls, reconCalls>>

\* getClientTools / getClientResources / getClientPrompts, up to the remote
\* call
GetClientBegins(op, id) ==
  /\ query = NoQuery
  /\ IF ~MapHas(clients, id)
     THEN /\ query' = NoQuery
          /\ last' = Step(op, "threw", id, "", <<NotFound>>, <<>>)
     ELSE IF ~clients[id].connected
     THEN /\ query' = NoQuery
          /\ last' = Step(op, "threw", id, clients[id].serverName, <<NotConnected>>, <<>>)
     ELSE /\ query' = [NoQuery EXCEPT !.op = op, !.cur = id,
                                      !.curName = clients[id].serverName]
          /\ last' = Step(op, "awaiting", id, clients[id].serverName, <<>>, <<>>)
  /\ emitted' = <<>>
  /\ UNCHANGED <<clients, order, serverNames, nextClientId, config,
                 reconnectTimers, timers, hooks, addCalls, reconCalls>>

\* a targeted query after its remote call resolved: the list of the answer,
\* or the empty list when the answer holds no array
GetClientResolved(resp) ==
  /\ query.op \in TargetOps
  /\ LET got == IF resp.array THEN Items(query.cur, resp.n) ELSE <<>>
     IN last' = Step(query.op, "returned", query.cur, query.curName, got,
                     <<[clientId |-> query.cur, ok |-> TRUE, value |-> got]>>)
  /\ query' = NoQuery
  /\ emitted' = <<>>
  /\ UNCHANGED <<clients, order, serverNames, nextClientId, config,
                 reconnectTimers, timers, hooks, addCalls, reconCalls>>

\* a targeted query after its remote call rejected: the catch block
GetClientRejected(err) ==
  /\ query.op \in TargetOps
  /\ clients' = WriteError(clients, query.cur, err)
  /\ emitted' = <<OperationError(query.op, query.cur, query.curName, err)>>
  /\ last' = Step(query.op, "threw", query.cur, query.curName, <<err>>,
                  <<[clientId |-> query.cur, ok |-> FALSE, value |-> <<>>]>>)
  /\ query' = NoQuery
  /\ UNCHANGED <<order, serverNames, nextClientId, config, reconnectTimers,
                 timers, hooks, addCalls, reconCalls>>

\* ------------------------------------------------------- query helpers
\* isClientHealthy(clientId) on the registry cl
IsClientHealthy(cl, id) ==
  MapHas(cl, id) /\ cl[id].connected /\ cl[id].error = NoError
ListServerNames == serverNames
HasServer(name) == SetHas(serverNames, name)
ListClientIds == SelectSeq(order, LAMBDA id : MapHas(clients, id))
GetClientIdByServerName(name) ==
  LET ids == SelectSeq(ListClientIds, LAMBDA id : clients[id].serverName = name)
  IN IF ids = <<>> THEN NoId ELSE ids[1]

\* -------------------------------------------------------- specifications
Registry ==
  \/ \E t \in Transports, name \in Names : AddServer(t, name)
  \/ \E c \in addCalls : AddServerConnected(c)
  \/ \E c \in addCalls, err \in Errors : AddServerFailed(c, err)
  \/ \E id \in AllIds, close \in CloseOutcomes : RemoveClient(id, close)
  \/ \E t \in Transports : TransportClose(t)

Reconnects ==
  \/ \E id \in AllIds : ReconnectClient(id)
  \/ \E c \in reconCalls : ReconnectConnected(c)
  \/ \E c \in reconCalls, err \in Errors : ReconnectFailed(c, err)

\* a transport of its own for every server name
TransportOf(name) == IF name = "alpha" THEN "t1" ELSE "t2"
QuietClose == [fires |-> FALSE, throws |-> NoError, rejects |-> NoError]

\* the registry the fan-out queries run over: servers are added one at a
\* time, each on its own transport, closed by their transports, and removed
Servers ==
  \/ \E name \in Names : addCalls = {} /\ AddServer(TransportOf(name), name)
  \/ \E c \in addCalls : AddServerConnected(c)
  \/ \E id \in AllIds : MapHas(clients, id) /\ RemoveClient(id, QuietClose)
  \/ \E t \in Transports : TransportClose(t)

\* one reconnectClient call at a time that connects
Reconnecting ==
  \/ \E id \in AllIds : reconCalls = {} /\ MapHas(clients, id) /\ ReconnectClient(id)
  \/ \E c \in reconCalls : ReconnectConnected(c)

\* the manager with the default configuration: servers added, also
\* overlapping and on shared transports, and removed, and transports that
\* close
Next ==
  \/ Registry

\* the aggregating queries
NextQuery ==
  \/ Servers
  \/ \E op \in AggOps : QueryBegins(op)
  \/ \E resp \in Responses : ListCallResolved(resp)
  \/ \E err \in Errors : CallRejected(err)

\* the first-responder queries
NextFirst ==
  \/ Servers
  \/ Reconnecting
  \/ \E op \in FirstOps : QueryBegins(op)
  \/ FirstCallResolved
  \/ \E err \in Errors : CallRejected(err)

\* all six fan-out queries, every rejected call rejected with the same error
NextFanout ==
  \/ Servers
  \/ Reconnecting
  \/ \E op \in AggOps \cup FirstOps : QueryBegins(op)
  \/ \E resp \in Responses : ListCallResolved(resp)
  \/ FirstCallResolved
  \/ CallRejected("e1")

\* the reconnect state machine of one record of a manager with autoReconnect
\* enabled: the first server that is added, its transport's hooks firing at
\* any time, reconnectClient and removeClient called at any time with any id
NextReconnect ==
  \/ nextClientId = 1 /\ AddServer("t1", "alpha")
  \/ \E c \in addCalls : AddServerConnected(c)
  \/ \E id \in AllIds, close \in CloseOutcomes : RemoveClient(id, close)
  \/ \E t \in Transports : TransportClose(t)
  \/ \E t \in Transports, err \in Errors : TransportError(t, err)
  \/ \E x \in timers : TimerFires(x)
  \/ \E id \in AllIds : ReconnectClient(id)
  \/ \E c \in reconCalls : ReconnectConnected(c)
  \/ \E c \in reconCalls, err \in Errors : ReconnectFailed(c, err)

\* the hook's record is in the registry and Connected
HookOfConnected(hook) ==
  MapHas(clients, hook.clientId) /\ clients[hook.clientId].connected

\* the timer-driven reconnects alone: the close hook fires for Connected
\* records only and nobody calls reconnectClient
NextBackoff ==
  \/ \E name \in Names : addCalls = {} /\ AddServer(TransportOf(name), name)
  \/ \E c \in addCalls : AddServerConnected(c)
  \/ \E id \in AllIds : MapHas(clients, id) /\ RemoveClient(id, QuietClose)
  \/ \E t \in Transports : HookOfConnected(hooks[t].onclose) /\ TransportClose(t)
  \/ \E x \in timers : TimerFires(x)
  \/ \E c \in reconCalls : ReconnectConnected(c)
  \/ \E c \in reconCalls : ReconnectFailed(c, "e1")

\* reconnectClient called by the user, one call at a time, before any
\* reconnect timer fires
NextManual ==
  \/ \E name \in Names : addCalls = {} /\ AddServer(TransportOf(name), name)
  \/ \E c \in addCalls : AddServerConnected(c)
  \/ \E id \in AllIds : MapHas(clients, id) /\ RemoveClient(id, QuietClose)
  \/ \E t \in Transports : TransportClose(t)
  \/ \E t \in Transports : TransportError(t, "e2")
  \/ \E id \in AllIds : reconCalls = {} /\ ReconnectClient(id)
  \/ \E c \in reconCalls : ReconnectConnected(c)
  \/ \E c \in reconCalls, err \in Errors : ReconnectFailed(c, err)

\* the targeted queries, with any id
NextTargeted ==
  \/ Servers
  \/ \E op \in TargetOps, id \in AllIds : GetClientBegins(op, id)
  \/ \E resp \in Responses : GetClientResolved(resp)
  \/ \E err \in Errors : GetClientRejected(err)

\* operations in flight while records are removed: one aggregating, one
\* first-responder and one targeted query, and reconnectClient, one call at a
\* time
NextInFlight ==
  \/ Servers
  \/ \E op \in {"listTools", "callTool"} : QueryBegins(op)
  \/ \E id \in AllIds : MapHas(clients, id) /\ GetClientBegins("getClientTools", id)
  \/ \E resp \in Responses : ListCallResolved(resp)
  \/ FirstCallResolved
  \/ CallRejected("e1")
  \/ GetClientResolved([array |-> TRUE, n |-> MaxItems])
  \/ GetClientRejected("e1")
  \/ \E id \in AllIds : reconCalls = {} /\ MapHas(clients, id) /\ ReconnectClient(id)
  \/ \E c \in reconCalls : ReconnectConnected(c)
  \/ \E c \in reconCalls : ReconnectFailed(c, "e1")

Spec == Init /\ [][Next]_vars
\* one record, with subscribers that throw
NextSubscribers ==
  \/ NextReconnect
  \/ \E c \in addCalls : AddServerSubscriberThrows(c, "e1")
  \/ \E id \in AllIds, close \in CloseOutcomes, type \in {"closeError", "clientRemoved"} :
       close.rejects = NoError /\ RemoveClientSubscriberThrows(id, close, type, "e1")
  \/ \E t \in Transports : TransportCloseSubscriberThrows(t, "e1")
  \/ \E c \in reconCalls : ReconnectConnectedSubscriberThrows(c, "e1")
  \/ \E c \in reconCalls : ReconnectFailedSubscriberThrows(c, "e2", "e1")

SpecSubscribers == InitAny /\ [][NextSubscribers]_vars
\* one record with autoReconnect enabled, its hooks, its reconnects and the
\* remote calls of listTools, callTool and getClientTools on it
NextStore ==
  \/ nextClientId = 1 /\ AddServer("t1", "alpha")
  \/ \E c \in addCalls : AddServerConnected(c)
  \/ \E c \in addCalls : AddServerFailed(c, "e1")
  \/ \E id \in AllIds : MapHas(clients, id) /\ RemoveClient(id, QuietClose)
  \/ \E t \in Transports : TransportClose(t)
  \/ \E t \in Transports : TransportError(t, "e2")
  \/ \E x \in timers : TimerFires(x)
  \/ \E c \in reconCalls : ReconnectConnected(c)
  \/ \E c \in reconCalls : ReconnectFailed(c, "e1")
  \/ \E op \in {"listTools", "callTool"} : QueryBegins(op)
  \/ ListCallResolved([array |-> TRUE, n |-> MaxItems])
  \/ FirstCallResolved
  \/ CallRejected("e1")
  \/ \E id \in AllIds : MapHas(clients, id) /\ GetClientBegins("getClientTools", id)
  \/ GetClientResolved([array |-> TRUE, n |-> MaxItems])
  \/ GetClientRejected("e1")

SpecStore == InitAuto /\ [][NextStore]_vars
\* servers added one at a time on any transport, also one that was used
\* before, and removed; the hooks of the transports fire at any time
NextReuse ==
  \/ \E t \in Transports, name \in Names : addCalls = {} /\ AddServer(t, name)
  \/ \E c \in addCalls : AddServerConnected(c)
  \/ \E c \in addCalls : AddServerFailed(c, "e1")
  \/ \E id \in AllIds : MapHas(clients, id) /\ RemoveClient(id, QuietClose)
  \/ \E t \in Transports : TransportClose(t)
  \/ \E t \in Transports : TransportError(t, "e2")

SpecReuse == Init /\ [][NextReuse]_vars
\* one record with autoReconnect enabled whose transport closes while it is
\* Connected and not again before it is reconnected, and which is removed
\* only while it is Connected
NextRest ==
  \/ nextClientId = 1 /\ AddServer("t1", "alpha")
  \/ \E c \in addCalls : AddServerConnected(c)
  \/ \E id \in AllIds :
       MapHas(clients, id) /\ clients[id].connected /\ RemoveClient(id, QuietClose)
  \/ \E t \in Transports : HookOfConnected(hooks[t].onclose) /\ TransportClose(t)
  \/ \E t \in Transports, err \in Errors : TransportError(t, err)
  \/ \E x \in timers : TimerFires(x)
  \/ \E c \in reconCalls : ReconnectConnected(c)
  \/ \E c \in reconCalls, err \in Errors : ReconnectFailed(c, err)

\* the event loop runs the callback of a timer that is due, and the promise
\* of a client.connect settles
TimerRuns == \E x \in timers : TimerFires(x)
ConnectSettles ==
  \E c \in reconCalls :
     ReconnectConnected(c) \/ \E err \in Errors : ReconnectFailed(c, err)

SpecRest == InitAuto /\ [][NextRest]_vars
FairSpecRest ==
  InitAuto /\ [][NextRest]_vars /\ WF_vars(TimerRuns) /\ WF_vars(ConnectSettles)
SpecInFlight == Init /\ [][NextInFlight]_vars
SpecTargeted == Init /\ [][NextTargeted]_vars
SpecReconnect == InitAuto /\ [][NextReconnect]_vars
SpecLifecycle == InitAny /\ [][NextReconnect]_vars
SpecBackoff == InitAuto /\ [][NextBackoff]_vars
SpecManual == InitAuto /\ [][NextManual]_vars
SpecQuery == Init /\ [][NextQuery]_vars
SpecFirst == Init /\ [][NextFirst]_vars
SpecFanout == Init /\ [][NextFanout]_vars

\* ---------------------------------------------------------------- claims
Occurrences(s, x) == Cardinality({i \in 1..Len(s) : s[i] = x})
AddStep(outcome) == last'.op = "addServer" /\ last'.outcome = outcome
\* the ids of the records removed from the registry
RemovedIds == Range(order) \ DOMAIN clients

\* C1: in every reachable state the store holds at most one connection
\* record per serverName, also while addServer calls overlap at the connect.
C1_OneRecordPerName ==
  \A i \in DOMAIN clients, j \in DOMAIN clients :
    clients[i].serverName = clients[j].serverName => i = j

\* C2: addServer with a serverName that is registered fails and leaves the
\* manager unchanged: no record, the same names and ids, no event, and the id
\* counter not advanced.
C2_DuplicateAddChangesNothing ==
  [][\A t \in Transports, name \in Names :
       (SetHas(ListServerNames, name) /\ AddServer(t, name)) =>
         /\ last'.outcome = "duplicate"
         /\ emitted' = <<>>
         /\ UNCHANGED <<clients, order, serverNames, nextClientId, hooks,
                        addCalls, reconnectTimers, timers>>]_vars
C2_Witness ==
  /\ last.op = "addServer" /\ last.outcome = "duplicate"
  /\ HasServer(last.serverName)
  /\ nextClientId <= MaxClients

\* C3: when the connect of addServer fails, addServer emits connectionError
\* once and fails with the error, the call leaves no record and no name
\* reservation behind, and a later addServer with the same name passes the
\* name check as it did before.
C3_FailedConnectLeavesNothing ==
  [][AddStep("failed") =>
       /\ emitted' = <<ConnectionError(last'.serverName, last'.value[1])>>
       /\ ~MapHas(clients', last'.clientId)
       /\ last'.clientId \notin Range(order')
       /\ UNCHANGED <<clients, order, serverNames>>
       /\ (~HasServer(last'.serverName) => ~NameExists(serverNames', last'.serverName))]_vars
\* an addServer that succeeded for a name whose earlier addServer, the one
\* that installed the transport's hooks, failed at the connect
C3_Witness ==
  /\ last.op = "addServer" /\ last.outcome = "ok"
  /\ \E t \in Transports :
       /\ hooks[t].onclose # NoHook
       /\ hooks[t].onclose.serverName = last.serverName
       /\ hooks[t].onclose.clientId \notin Range(order)
       /\ hooks[t].onclose.clientId \notin {c.clientId : c \in addCalls}

\* C4, as stated: a failed addServer (duplicate name or failed connect)
\* consumes no id, so the ids of the successful addServer calls are
\* consecutive whatever failed in between.
C4_FailedAddConsumesNoId ==
  addCalls = {} =>
    /\ nextClientId = Len(order) + 1
    /\ Range(order) = {ClientId(k) : k \in 1..Len(order)}

\* C4, amended: a duplicate name consumes no id; an addServer that passed
\* the name check has consumed one id, which a failed connect does not give
\* back, so the counter is one more than the number of calls that passed the
\* name check and is never below the ids registered and in flight.
C4_OnlyDuplicateConsumesNoId ==
  /\ [](nextClientId >= Len(order) + Cardinality(addCalls) + 1)
  /\ [][/\ AddStep("duplicate") => nextClientId' = nextClientId
        /\ AddStep("connecting") =>
             /\ nextClientId' = nextClientId + 1
             /\ last'.clientId = ClientId(nextClientId)
        /\ AddStep("failed") =>
             /\ nextClientId' = nextClientId
             /\ \E k \in 1..(nextClientId - 1) : last'.clientId = ClientId(k)
        /\ AddStep("ok") => nextClientId' = nextClientId]_vars
\* the addServer after a failed connect gets the id 2
C4_Witness ==
  /\ last.op = "addServer" /\ last.outcome = "ok"
  /\ last.clientId = ClientId(2)
  /\ order = <<ClientId(2)>>
  /\ addCalls = {}

\* C5: every successful addServer returns an id no addServer returned
\* before, removed records included, and afterwards listServerNames()
\* contains the name exactly once.
C5_FreshIdAndNameOnce ==
  [][AddStep("ok") =>
       /\ last'.clientId \notin Range(order)
       /\ MapHas(clients', last'.clientId)
       /\ clients'[last'.clientId].serverName = last'.serverName
       /\ Occurrences(ListServerNames', last'.serverName) = 1]_vars
\* an addServer that succeeds after a record was removed
C5_Witness ==
  /\ last.op = "addServer" /\ last.outcome = "ok"
  /\ RemovedIds # {}
  /\ Occurrences(ListServerNames, last.serverName) = 1

\* C6: after removeClient(id) returned true for a record named n,
\* hasServer(n) is false, and an addServer with name n that connects returns
\* an id different from every removed id.
C6_RemoveFreesName ==
  [][/\ (last'.op = "removeClient" /\ last'.outcome = "true") =>
          /\ ~SetHas(serverNames', last'.serverName)
          /\ ~MapHas(clients', last'.clientId)
          /\ last'.clientId \in Range(order')
     /\ AddStep("ok") => last'.clientId \notin RemovedIds]_vars
\* the name of a removed record (the one its transport's hooks were installed
\* for) registered again under another id
C6_Witness ==
  /\ last.op = "addServer" /\ last.outcome = "ok"
  /\ \E t \in Transports :
       /\ hooks[t].onclose.clientId \in RemovedIds
       /\ hooks[t].onclose.serverName = last.serverName
       /\ hooks[t].onclose.clientId # last.clientId

\* the place of an id in the entry list of the clients Map
Pos(o, id) == CHOOSE i \in 1..Len(o) : o[i] = id
\* the answers of the calls that succeeded, one after the other
RECURSIVE Answers(_)
Answers(calls) ==
  IF calls = <<>> THEN <<>>
  ELSE (IF Head(calls).ok THEN Head(calls).value ELSE <<>>) \o Answers(Tail(calls))
AggEnded == last.op \in AggOps /\ last.outcome \in {"returned", "threw"}
\* a step of the fan-out query that handles the outcome of its remote call
CallHandled ==
  /\ query.op # "none"
  /\ last'.op = query.op
  /\ Len(last'.calls) = Len(query.calls) + 1

\* C7: an aggregating query throws the aggregate error if and only if no
\* visited record's call succeeded and at least one failed; with a call that
\* succeeded, whatever the number of its items, it returns the unioned list.
C7_ThrowsOnlyWhenNoCallSucceeded ==
  AggEnded =>
    /\ last.outcome = "threw" <=>
         /\ last.calls # <<>>
         /\ \A i \in 1..Len(last.calls) : ~last.calls[i].ok
    /\ last.outcome = "returned" => last.value = Answers(last.calls)

\* C8: in an aggregating query a failed call does not end the pass: every
\* connected record later in insertion order is still invoked, one
\* operationError is emitted for each failing record and none for a
\* succeeding one, and no record is invoked twice.
C8_FailureDoesNotEndPass ==
  [][(CallHandled /\ query.op \in AggOps) =>
       LET calls == last'.calls
           call == calls[Len(calls)]
       IN /\ call.clientId = query.cur
          /\ \A a \in 1..Len(calls), b \in 1..Len(calls) :
               calls[a].clientId = calls[b].clientId => a = b
          /\ call.ok => emitted' = <<>>
          /\ ~call.ok =>
               /\ Len(emitted') = 1
               /\ emitted'[1].type = "operationError"
               /\ emitted'[1].clientId = query.cur
               /\ emitted'[1].operation = query.op
               /\ \A i \in (query.pos + 1)..Len(order) :
                    (MapHas(clients', order[i]) /\ clients'[order[i]].connected) =>
                      /\ query'.op = query.op
                      /\ query'.pos > query.pos
                      /\ query'.pos <= i]_vars
\* the first record failed, the second was still invoked and its items returned
C8_Witness ==
  /\ last.op \in AggOps /\ last.outcome = "returned"
  /\ Len(last.calls) = 2
  /\ ~last.calls[1].ok /\ last.calls[2].ok
  /\ last.value # <<>>

\* C9: the list an aggregating query returns is the concatenation, in the
\* insertion order of the records, of the item lists of the records whose
\* call succeeded, each in the record's own order.
C9_ResultInInsertionOrder ==
  (last.op \in AggOps /\ last.outcome = "returned") =>
    /\ last.value = Answers(last.calls)
    /\ \A a \in 1..Len(last.calls), b \in 1..Len(last.calls) :
         a < b => Pos(order, last.calls[a].clientId) < Pos(order, last.calls[b].clientId)
    /\ \A a \in 1..Len(last.calls) :
         \E n \in 0..MaxItems :
           last.calls[a].value = Items(last.calls[a].clientId, n)
\* two records answered with MaxItems items each
C9_Witness ==
  /\ last.op \in AggOps /\ last.outcome = "returned"
  /\ Len(last.calls) = 2
  /\ last.calls[1].ok /\ last.calls[2].ok
  /\ Len(last.value) = 2 * MaxItems

\* C10: a fan-out query never invokes a record that is Disconnected when the
\* pass reaches it and returns no item of such a record; the records it
\* passes over are the disconnected ones, so a reconnected record is invoked
\* again.
C10_OnlyConnectedInvoked ==
  [][(last'.op \in AggOps \cup FirstOps) =>
       LET from == IF query.op = "none" THEN 0 ELSE query.pos
           upto == IF query'.op # "none" THEN query'.pos ELSE Len(order) + 1
           returnedFirst == last'.op \in FirstOps /\ last'.outcome = "returned"
       IN /\ query'.op # "none" =>
               /\ order[query'.pos] = query'.cur
               /\ MapHas(clients', query'.cur)
               /\ clients'[query'.cur].connected
               /\ query'.cur \notin Range(query'.skipped)
          /\ ~returnedFirst =>
               \A i \in (from + 1)..(upto - 1) :
                  MapHas(clients', order[i]) => ~clients'[order[i]].connected
          /\ \A k \in 1..Len(last'.value) :
               last'.outcome = "returned" =>
                 \E a \in 1..Len(last'.calls) :
                    /\ last'.calls[a].ok
                    /\ last'.calls[a].clientId = last'.value[k].src]_vars
\* a query that passed over a disconnected record and invokes a record that
\* was reconnected
C10_Witness ==
  /\ query.op # "none"
  /\ query.skipped # <<>>
  /\ MapHas(clients, query.cur)
  /\ clients[query.cur].client.config = "default"

\* the calls of a pass are made in the insertion order of their records, and
\* only the last of them may have succeeded
InOrderOneSuccess(calls) ==
  /\ \A a \in 1..Len(calls), b \in 1..Len(calls) :
       a < b => Pos(order, calls[a].clientId) < Pos(order, calls[b].clientId)
  /\ \A a \in 1..(Len(calls) - 1) : ~calls[a].ok
FirstReturned == last.op \in FirstOps /\ last.outcome = "returned"
FirstThrew == last.op \in FirstOps /\ last.outcome = "threw"

\* C11: a first-responder query invokes connected records one at a time in
\* the insertion order of the store and returns the result of the first
\* record whose call succeeds; no record after that one is invoked.
C11_FirstSuccessReturns ==
  /\ query.op \in FirstOps =>
       /\ InOrderOneSuccess(query.calls)
       /\ \A a \in 1..Len(query.calls) :
            /\ ~query.calls[a].ok
            /\ Pos(order, query.calls[a].clientId) < query.pos
       /\ order[query.pos] = query.cur
  /\ (last.op \in FirstOps /\ last.outcome = "awaiting") =>
       /\ query.op = last.op /\ query.cur = last.clientId
       /\ clients[last.clientId].connected
  /\ FirstReturned =>
       /\ query = NoQuery
       /\ last.calls # <<>>
       /\ InOrderOneSuccess(last.calls)
       /\ last.calls[Len(last.calls)].ok
       /\ last.calls[Len(last.calls)].clientId = last.clientId
       /\ last.value = last.calls[Len(last.calls)].value
       /\ \A k \in 1..Len(last.value) : last.value[k].src = last.clientId
\* the first record answered while a connected record stands after it in the
\* store: that record was not invoked
C11_Witness ==
  /\ FirstReturned
  /\ Len(last.calls) = 1
  /\ \E id \in DOMAIN clients :
       /\ clients[id].connected
       /\ Pos(order, id) > Pos(order, last.clientId)

\* C12: in a first-responder query each failed attempt emits exactly one
\* operationError and is not thrown when a later record succeeds; when no
\* record succeeds, also when none is connected, the query throws an
\* aggregate error that carries one error per attempted record, in the order
\* of the attempts.
C12_FailedAttemptsCollected ==
  /\ [](query.op \in FirstOps =>
         /\ Len(query.errors) = Len(query.calls)
         /\ \A i \in 1..Len(query.calls) :
              query.errors[i].clientId = query.calls[i].clientId)
  /\ [](FirstThrew =>
         /\ Len(last.value) = Len(last.calls)
         /\ \A i \in 1..Len(last.calls) : ~last.calls[i].ok)
  /\ [][(CallHandled /\ query.op \in FirstOps) =>
          LET call == last'.calls[Len(last'.calls)]
          IN /\ call.ok => (emitted' = <<>> /\ last'.outcome = "returned")
             /\ ~call.ok =>
                  /\ Len(emitted') = 1
                  /\ emitted'[1].type = "operationError"
                  /\ emitted'[1].clientId = query.cur
                  /\ emitted'[1].operation = query.op
                  /\ emitted'[1].error \in Errors
                  /\ IF query'.op # "none"
                     THEN /\ last'.outcome = "awaiting"
                          /\ query'.errors = Append(query.errors,
                               [clientId |-> query.cur, error |-> emitted'[1].error])
                     ELSE /\ last'.outcome = "threw"
                          /\ last'.value =
                               [i \in 1..(Len(query.errors) + 1) |->
                                  IF i <= Len(query.errors)
                                  THEN query.errors[i].error
                                  ELSE emitted'[1].error]]_vars
  /\ [][(query.op = "none" /\ last'.op \in FirstOps /\ query'.op = "none") =>
          /\ last'.outcome = "threw"
          /\ last'.value = <<>> /\ last'.calls = <<>>
          /\ emitted' = <<>>
          /\ \A id \in DOMAIN clients : ~clients[id].connected]_vars
\* two attempts failed with different errors and the query threw both
C12_Witness ==
  /\ FirstThrew
  /\ Len(last.calls) = 2
  /\ last.value = <<"e1", "e2">>
\* the reconnect timers pending for an id, and the reconnectClient calls for
\* it that are suspended at the connect
TimersOf(id) == TimersIn(timers, id)
AttemptsOf(id) == {c \in reconCalls : c.clientId = id}
\* a record that is Disconnected with no timer pending and no attempt in flight
Exhausted(id) ==
  /\ MapHas(clients, id) /\ ~clients[id].connected
  /\ TimersOf(id) = {} /\ AttemptsOf(id) = {}
\* the step is the end of a reconnect attempt that failed at the connect
\* (its label carries the error)
AttemptFailed ==
  last'.op \in {"timer", "reconnectClient"} /\ last'.outcome = "false"
    /\ last'.value # <<>>

\* C13: with autoReconnect enabled, after the close hook of a connected
\* record fired and while every attempt fails, the attempts are numbered from
\* the first on, each failure but the last schedules the one timer of the next
\* attempt, and the failure of attempt number maxReconnectAttempts schedules
\* none: then no timer is pending, nothing is in flight, the record is
\* Disconnected, and it stays so.
C13_StopsAfterMaxAttempts ==
  /\ [](\A x \in timers : x.attemptCount < config.maxReconnectAttempts)
  /\ [](\A c \in reconCalls :
          c.source = "timer" /\ c.attemptCount < config.maxReconnectAttempts)
  /\ [][/\ (last'.op = "onclose" /\ last'.outcome = "closed") =>
             /\ ~clients'[last'.clientId].connected
             /\ \E x \in timers' : TimersIn(timers', last'.clientId) = {x} /\ x.attemptCount = 0
        /\ (last'.op = "timer" /\ last'.outcome = "connecting") =>
             \E x \in timers \ timers', c \in reconCalls' \ reconCalls :
                /\ c.clientId = x.clientId /\ c.attemptCount = x.attemptCount
                /\ timers' = timers \ {x}
                /\ reconCalls' = reconCalls \cup {c}
        /\ AttemptFailed =>
             \E c \in reconCalls \ reconCalls' :
                /\ c.clientId = last'.clientId
                /\ IF c.attemptCount + 1 < config.maxReconnectAttempts
                   THEN \E x \in timers' :
                          /\ TimersOf(c.clientId)' = {x}
                          /\ x.attemptCount = c.attemptCount + 1
                   ELSE /\ TimersOf(c.clientId)' = {}
                        /\ MapHas(clients, c.clientId) => Exhausted(c.clientId)'
        /\ \A id \in AllIds :
             Exhausted(id) => (Exhausted(id)' \/ ~MapHas(clients', id))]_vars
\* attempt number maxReconnectAttempts > 1 of a record has just failed
C13_Witness ==
  /\ last.op = "timer" /\ last.outcome = "false" /\ last.value # <<>>
  /\ config.maxReconnectAttempts = MaxAttempts
  /\ Exhausted(last.clientId)
\* C14: in every reachable state at most one reconnect timer is pending per
\* connection id, and it is the one reconnectTimers holds for the id:
\* scheduling a timer cancels the one pending before, also when the close
\* hook fires again while a timer is pending or an attempt is in flight.
C14_OneTimerPerId ==
  /\ \A x \in timers, y \in timers :
       (x.clientId = y.clientId \/ x.handle = y.handle) => x = y
  /\ \A x \in timers :
       /\ MapHas(reconnectTimers, x.clientId)
       /\ reconnectTimers[x.clientId] = x.handle
\* the close hook fired while a timer's reconnect attempt was in flight and
\* scheduled the one timer that is pending now
C14_Witness ==
  /\ last.op = "onclose" /\ last.outcome = "closed"
  /\ \E c \in AttemptsOf(last.clientId) : c.source = "timer"
  /\ Cardinality(TimersOf(last.clientId)) = 1
\* the events a reconnect attempt for id emits
ReconnectEvents(events, id) ==
  {i \in 1..Len(events) :
     /\ events[i].type \in {"clientReconnected", "reconnectionError"}
     /\ events[i].clientId = id}
\* a removed id with no timer pending and no attempt in flight
Quiet(id) ==
  /\ id \in RemovedIds
  /\ TimersOf(id) = {} /\ ~MapHas(reconnectTimers, id)
  /\ AttemptsOf(id) = {}
\* the step is removeClient(id) returning true
Removes(id) ==
  last'.op = "removeClient" /\ last'.outcome = "true" /\ last'.clientId = id

\* C15: removeClient(id) while a reconnect timer for id is pending cancels
\* the timer: unless the close that removeClient performs on a Connected
\* record fires the close hook, no timer for id is pending afterwards, and
\* with no attempt already in flight the id is quiet from then on: no timer
\* fires for it, no attempt is made, and no clientReconnected and no
\* reconnectionError for it is emitted.
C15_RemovedTimerNeverFires ==
  [][\A id \in AllIds :
       /\ (Removes(id) /\ TimersOf(id) # {}) =>
            /\ last'.value = <<"timer">>
            /\ \/ emitted'[1].type = "transportClosed"
               \/ /\ TimersIn(timers', id) = {}
                  /\ ~MapHas(reconnectTimers', id)
                  /\ AttemptsOf(id) = {} => Quiet(id)'
       /\ Quiet(id) =>
            /\ Quiet(id)'
            /\ ReconnectEvents(emitted', id) = {}
            /\ ~(last'.op = "timer" /\ last'.clientId = id)
            /\ ~(last'.clientId = id /\ last'.outcome = "connecting")]_vars
\* removeClient has just cancelled the pending timer of a Disconnected
\* record that had no attempt in flight
C15_Witness ==
  /\ last.op = "removeClient" /\ last.outcome = "true"
  /\ last.value = <<"timer">>
  /\ emitted = <<ClientRemoved(last.clientId, last.serverName)>>
  /\ Quiet(last.clientId)
\* C16: removeClient(id) at any point of the reconnect state machine leaves
\* no deferred work for id: once the record is removed no reconnect timer is
\* pending for id and no clientReconnected or reconnectionError for id is
\* emitted.
C16_RemoveLeavesNoDeferredWork ==
  \A id \in RemovedIds :
    /\ TimersOf(id) = {}
    /\ ReconnectEvents(emitted, id) = {}
\* C17: reconnectClient(id) on a Connected record returns true without
\* connecting, emitting or changing the record; on an unknown id it returns
\* false without emitting or changing anything. A reconnect timer that fires
\* for a record that is Connected again has no effect and schedules no timer.
C17_ReconnectOfConnectedIsNoOp ==
  [][/\ \A id \in AllIds :
          (ReconnectClient(id) /\ (~MapHas(clients, id) \/ clients[id].connected)) =>
            /\ last'.op = "reconnectClient"
            /\ last'.outcome = IF MapHas(clients, id) THEN "true" ELSE "false"
            /\ emitted' = <<>>
            /\ UNCHANGED <<clients, order, serverNames, nextClientId, config,
                           reconnectTimers, timers, hooks, addCalls, reconCalls,
                           query>>
     /\ \A x \in timers :
          (TimerFires(x) /\ MapHas(clients, x.clientId)
             /\ clients[x.clientId].connected) =>
            /\ last'.outcome = "true"
            /\ emitted' = <<>>
            /\ timers' = timers \ {x}
            /\ UNCHANGED <<clients, order, serverNames, nextClientId, config,
                           reconnectTimers, hooks, addCalls, reconCalls, query>>]_vars
\* a timer has fired for a record that reconnectClient had connected again
\* in the meantime, and left it as it was with no timer pending
C17_Witness ==
  /\ last.op = "timer" /\ last.outcome = "true" /\ emitted = <<>>
  /\ MapHas(clients, last.clientId)
  /\ clients[last.clientId].connected
  /\ clients[last.clientId].client.config = "default"
  /\ TimersOf(last.clientId) = {}
\* C18: reconnectClient(id) on a Disconnected record connects a new client
\* handle over the record's transport; when the connect resolves the record
\* is Connected with the new handle and no lastError, clientReconnected is
\* emitted and true returned; when it rejects reconnectionError is emitted
\* and false returned, the record stays Disconnected with its old handle,
\* and no timer is scheduled or cancelled.
C18_ReconnectOfDisconnected ==
  [][/\ \A id \in AllIds :
          (ReconnectClient(id) /\ MapHas(clients, id) /\ ~clients[id].connected) =>
            /\ last'.outcome = "connecting"
            /\ emitted' = <<>>
            /\ UNCHANGED <<clients, timers, reconnectTimers>>
            /\ \E c \in reconCalls' :
                 /\ reconCalls' = reconCalls \cup {c}
                 /\ c.clientId = id
                 /\ c.transport = clients[id].transport
                 /\ \A i \in DOMAIN clients : clients[i].client # c.client
     /\ \A c \in reconCalls :
          (ReconnectConnected(c) /\ MapHas(clients, c.clientId)) =>
            /\ last'.op = "reconnectClient" /\ last'.outcome = "true"
            /\ emitted' = <<ClientReconnected(c.clientId, clients[c.clientId].serverName)>>
            /\ clients' = [clients EXCEPT ![c.clientId] =
                 [client |-> c.client, serverName |-> clients[c.clientId].serverName,
                  transport |-> clients[c.clientId].transport,
                  connected |-> TRUE, error |-> NoError]]
            /\ clients[c.clientId].client # c.client
            /\ UNCHANGED <<timers, reconnectTimers>>
     /\ \A c \in reconCalls, err \in Errors :
          (ReconnectFailed(c, err) /\ MapHas(clients, c.clientId)) =>
            /\ last'.op = "reconnectClient" /\ last'.outcome = "false"
            /\ emitted' = <<ReconnectionError(c.clientId, err)>>
            /\ ~clients'[c.clientId].connected
            /\ clients'[c.clientId].client # c.client
            /\ UNCHANGED <<clients, timers, reconnectTimers>>]_vars
\* a reconnectClient has just failed for a record that has a lastError and a
\* reconnect timer pending: both are as they were
C18_Witness ==
  /\ last.op = "reconnectClient" /\ last.outcome = "false" /\ last.value # <<>>
  /\ MapHas(clients, last.clientId)
  /\ ~clients[last.clientId].connected
  /\ clients[last.clientId].error = "e2"
  /\ clients[last.clientId].client.config = "merged"
  /\ \E x \in TimersOf(last.clientId) : x.attemptCount = 0
\* the events of a type in a list of events
EventsOfType(events, type) == {i \in 1..Len(events) : events[i].type = type}

\* C19: removeClient(id) returns true and emits clientRemoved exactly once
\* when a record with that id existed, and returns false and emits nothing
\* when it did not; a removed id stays removed, so a second removeClient for
\* it returns false and changes nothing.
C19_RemoveOnce ==
  [][/\ last'.op = "removeClient" =>
          LET id == last'.clientId
          IN IF MapHas(clients, id)
             THEN /\ last'.outcome = "true"
                  /\ Cardinality(EventsOfType(emitted', "clientRemoved")) = 1
                  /\ emitted'[Len(emitted')] = ClientRemoved(id, clients[id].serverName)
                  /\ ~MapHas(clients', id)
             ELSE /\ last'.outcome = "false"
                  /\ emitted' = <<>>
                  /\ UNCHANGED <<clients, order, serverNames, nextClientId, config,
                                 reconnectTimers, timers, hooks, addCalls,
                                 reconCalls, query>>
     /\ \A id \in RemovedIds : ~MapHas(clients', id)]_vars
\* the second removeClient of an id has just returned false
C19_Witness ==
  /\ last.op = "removeClient" /\ last.outcome = "false"
  /\ last.clientId \in RemovedIds
  /\ emitted = <<>>

\* C20: removeClient closes the transport only when the record is
\* Connected: for a Disconnected record nothing of the close shows; when the
\* close of a Connected record fails, by throwing or by rejecting, closeError
\* is emitted once and the removal still completes: the record and its name
\* are gone, clientRemoved is emitted after it and true is returned.
C20_CloseFailureDoesNotStopRemoval ==
  [][\A id \in AllIds, close \in CloseOutcomes :
       (RemoveClient(id, close) /\ MapHas(clients, id)) =>
         LET closeErrors == EventsOfType(emitted', "closeError")
             failure == IF close.throws # NoError THEN close.throws
                        ELSE close.rejects
         IN /\ ~clients[id].connected =>
                 emitted' = <<ClientRemoved(id, clients[id].serverName)>>
            /\ (clients[id].connected /\ failure = NoError) =>
                 closeErrors = {}
            /\ (clients[id].connected /\ failure # NoError) =>
                 /\ closeErrors = {Len(emitted') - 1}
                 /\ emitted'[Len(emitted') - 1] = CloseError(id, failure)
            /\ emitted'[Len(emitted')] = ClientRemoved(id, clients[id].serverName)
            /\ last'.outcome = "true"
            /\ ~MapHas(clients', id)
            /\ ~SetHas(serverNames', clients[id].serverName)]_vars
C22_ErrorHookOnlyRecordsError ==
  [][last'.op = "onerror" =>
       LET id == last'.clientId
           err == last'.value[1]
       IN /\ UNCHANGED <<order, serverNames, nextClientId, reconnectTimers,
                         timers, hooks, addCalls, reconCalls, query>>
          /\ IF MapHas(clients, id)
             THEN /\ last'.outcome = "recorded"
                  /\ clients' = [clients EXCEPT ![id].error = err]
                  /\ clients'[id].connected = clients[id].connected
                  /\ clients'[id].client = clients[id].client
                  /\ emitted' = <<TransportErrorEvent(id, clients[id].serverName, err)>>
             ELSE /\ last'.outcome = "ignored"
                  /\ clients' = clients
                  /\ emitted' = <<>>]_vars
\* the error hook has just fired for a Connected record whose earlier
\* reconnect timer is still pending
C22_Witness ==
  /\ last.op = "onerror" /\ last.outcome = "recorded"
  /\ clients[last.clientId].connected
  /\ clients[last.clientId].error = last.value[1]
  /\ TimersOf(last.clientId) # {}
\* C23: the reconnect attempt counter of a record goes back to 0 only after a
\* successful connect: while the record stays Disconnected the attempt count
\* of its pending timer never decreases, also when the close hook fires
\* again.
C23_CounterNeverDecreases ==
  [][\A id \in DOMAIN clients :
       (~clients[id].connected /\ MapHas(clients', id) /\ ~clients'[id].connected) =>
         \A x \in TimersOf(id), y \in TimersIn(timers', id) :
            y.attemptCount >= x.attemptCount]_vars
\* C24: a targeted query fails with a not-found error when the id is not in
\* the store and with a different, not-connected error when the record is
\* Disconnected; in both cases no remote call is made, no event is emitted
\* and nothing changes.
C24_TargetedQueryPreconditions ==
  [][(last'.op \in TargetOps /\ query.op = "none") =>
       LET id == last'.clientId
           failed == /\ last'.outcome = "threw"
                     /\ last'.calls = <<>>
                     /\ query' = NoQuery
                     /\ emitted' = <<>>
                     /\ UNCHANGED <<clients, order, serverNames, nextClientId,
                                    reconnectTimers, timers, hooks, addCalls,
                                    reconCalls>>
       IN /\ NotFound # NotConnected
          /\ IF ~MapHas(clients, id)
             THEN failed /\ last'.value = <<NotFound>>
             ELSE IF ~clients[id].connected
             THEN failed /\ last'.value = <<NotConnected>>
             ELSE /\ last'.outcome = "awaiting"
                  /\ query'.op = last'.op /\ query'.cur = id]_vars
\* a targeted query on a Disconnected record has just thrown
C24_Witness ==
  /\ last.op \in TargetOps /\ last.outcome = "threw"
  /\ last.value = <<NotConnected>>
  /\ MapHas(clients, last.clientId)
  /\ ~clients[last.clientId].connected
  /\ clients[last.clientId].error = NoError
\* the step belongs to a query or to a reconnect
QueryOrReconnectStep ==
  last'.op \in AggOps \cup FirstOps \cup TargetOps \cup {"reconnectClient", "timer"}

\* C25: a record removed while one of its operations is in flight (a fan-out
\* call, a targeted call or a reconnect attempt) is never put back: no step
\* of a query or of a reconnect changes listClientIds() or
\* listServerNames(), and a removed id is never in listClientIds() again.
C25_RemovedRecordStaysRemoved ==
  [][/\ \A id \in RemovedIds : ~SetHas(ListClientIds', id)
     /\ QueryOrReconnectStep =>
          /\ ListClientIds' = ListClientIds
          /\ ListServerNames' = ListServerNames]_vars
\* the connect of a reconnectClient has just resolved for a record that was
\* removed in the meantime
C25_Witness ==
  /\ last.op = "reconnectClient" /\ last.outcome = "true"
  /\ emitted # <<>>
  /\ last.clientId \in RemovedIds
  /\ ~SetHas(ListClientIds, last.clientId)
  /\ ~SetHas(ListServerNames, last.serverName)
\* C26: when removeClient removes a record while an aggregating query's
\* remote call on that record is in flight, the result of that call is
\* discarded: neither the list the query goes on with nor the list it
\* returns contains an item of the removed record.
C26_RemovedRecordsItemsDiscarded ==
  [][(CallHandled /\ query.op \in AggOps /\ ~MapHas(clients, query.cur)) =>
       /\ query'.op # "none" =>
            \A k \in 1..Len(query'.items) : query'.items[k].src # query.cur
       /\ last'.outcome = "returned" =>
            \A k \in 1..Len(last'.value) : last'.value[k].src # query.cur]_vars
\* C27: a subscriber that throws does not change the outcome or the state
\* effects of the emitting operation: an addServer that emitted serverAdded
\* returns its id with the record and its name registered, a removeClient
\* of a registered record returns true with the record and its name both
\* removed, and a close hook that emitted transportClosed with autoReconnect
\* enabled leaves a reconnect timer pending for the record.
C27_SubscriberFailureChangesNothing ==
  [][/\ EventsOfType(emitted', "serverAdded") # {} =>
          /\ last'.op = "addServer" /\ last'.outcome = "ok"
          /\ MapHas(clients', last'.clientId)
          /\ SetHas(serverNames', last'.serverName)
     /\ (last'.op = "removeClient" /\ MapHas(clients, last'.clientId)) =>
          /\ last'.outcome = "true"
          /\ ~MapHas(clients', last'.clientId)
          /\ ~SetHas(serverNames', last'.serverName)
     /\ (last'.op = "onclose" /\ config.autoReconnect
           /\ EventsOfType(emitted', "transportClosed") # {}) =>
          TimersIn(timers', last'.clientId) # {}]_vars
\* C28: a record leaves the store only through removeClient and enters it
\* only through an addServer whose handshake succeeded, as Connected with no
\* lastError; every other step (hooks, queries, reconnects, timers, an
\* addServer that did not succeed) leaves listClientIds() and
\* listServerNames() unchanged.
C28_StoreChangesOnlyByAddAndRemove ==
  [][/\ \A id \in DOMAIN clients' \ DOMAIN clients :
          /\ last'.op = "addServer" /\ last'.outcome = "ok"
          /\ last'.clientId = id
          /\ \E c \in addCalls \ addCalls' : c.clientId = id
          /\ clients'[id].connected
          /\ clients'[id].error = NoError
     /\ \A id \in DOMAIN clients \ DOMAIN clients' :
          /\ last'.op = "removeClient" /\ last'.outcome = "true"
          /\ last'.clientId = id
     /\ ~(\/ last'.op = "addServer" /\ last'.outcome = "ok"
          \/ last'.op = "removeClient" /\ last'.outcome = "true") =>
          /\ ListClientIds' = ListClientIds
          /\ ListServerNames' = ListServerNames]_vars
\* the last reconnect attempt of a record has just failed and a remote call
\* on it had failed before: the record and its name are still registered
C28_Witness ==
  /\ last.op = "timer" /\ last.outcome = "false" /\ last.value # <<>>
  /\ Exhausted(last.clientId)
  /\ clients[last.clientId].error # NoError
  /\ SetHas(ListClientIds, last.clientId)
  /\ SetHas(ListServerNames, clients[last.clientId].serverName)
\* the records registered over the transport t
RegisteredOver(t) == {id \in DOMAIN clients : clients[id].transport = t}

\* C29: the close and error hooks of a transport act on the record that is
\* registered over it: when the close hook of a transport with one
\* registered record fires, that record is Disconnected afterwards, and
\* when its error hook fires with an error, that error is the record's
\* lastError afterwards.
C29_HooksActOnRegisteredRecord ==
  [][\A t \in Transports :
       /\ (/\ last'.op = "onclose"
           /\ hooks[t].onclose # NoHook
           /\ hooks[t].onclose.clientId = last'.clientId
           /\ Cardinality(RegisteredOver(t)) = 1) =>
            \A id \in RegisteredOver(t) : ~clients'[id].connected
       /\ (/\ last'.op = "onerror"
           /\ hooks[t].onerror # NoHook
           /\ hooks[t].onerror.clientId = last'.clientId
           /\ Cardinality(RegisteredOver(t)) = 1) =>
            \A id \in RegisteredOver(t) : clients'[id].error = last'.value[1]]_vars
\* a record that is Connected, or Disconnected with no timer pending and no
\* attempt in flight
AtRest(id) ==
  /\ MapHas(clients, id)
  /\ clients[id].connected \/ (TimersOf(id) = {} /\ AttemptsOf(id) = {})

\* C30: with autoReconnect enabled, a record whose transport closed, that is
\* not removed and whose transport does not close again, eventually comes to
\* rest: it is Connected again, or Disconnected with no timer pending and no
\* attempt in flight.
C30_ReconnectComesToRest ==
  \A id \in AllIds :
     (MapHas(clients, id) /\ ~clients[id].connected) ~> AtRest(id)
\* a timer's attempt has just reconnected the record: nothing is pending
C30_Witness ==
  /\ last.op = "timer" /\ last.outcome = "true" /\ emitted # <<>>
  /\ AtRest(last.clientId)
  /\ clients[last.clientId].connected
  /\ timers = {} /\ reconCalls = {}
\* C31: in every reachable state the registered names are the serverName
\* values of the records in the store: hasServer(n) is true exactly when
\* getClientIdByServerName(n) returns an id, and listServerNames() has as
\* many entries as listClientIds().
C31_NamesMatchRecords ==
  /\ Range(ListServerNames) = {clients[id].serverName : id \in DOMAIN clients}
  /\ \A n \in Names : HasServer(n) <=> GetClientIdByServerName(n) # NoId
  /\ Len(ListServerNames) = Len(ListClientIds)
\* C32: lastError of a record is set by the transport error hook and by a
\* failed aggregating or targeted remote call, not by a failed
\* first-responder attempt, and is cleared only by a reconnect that connects;
\* and a Connected record with a lastError is not healthy after any step
\* that leaves it in the store and Connected.
C32_ErrorStaysWhileConnected ==
  [][\A id \in DOMAIN clients \cap DOMAIN clients' :
       /\ clients'[id].error # clients[id].error =>
            IF clients'[id].error # NoError
            THEN /\ last'.op \in {"onerror"} \cup AggOps \cup TargetOps
                 /\ last'.clientId = id \/ query.cur = id
            ELSE /\ last'.op \in {"reconnectClient", "timer"}
                 /\ last'.outcome = "true"
                 /\ last'.clientId = id
                 /\ EventsOfType(emitted', "clientReconnected") # {}
       /\ (/\ clients[id].connected /\ clients[id].error # NoError
           /\ clients'[id].connected) =>
            ~IsClientHealthy(clients', id)]_vars
\* C33: for every transition of a record from Disconnected to Connected
\* exactly one clientReconnected event is emitted and the client handle is
\* replaced once, and for a record of the store no such event is emitted
\* and no handle is replaced without that transition, also when two
\* reconnect attempts for the same id overlap.
C33_OneEventPerReconnection ==
  [][\A id \in DOMAIN clients \cap DOMAIN clients' :
       LET connects == ~clients[id].connected /\ clients'[id].connected
           events == {i \in EventsOfType(emitted', "clientReconnected") :
                        emitted'[i].clientId = id}
           replaced == clients'[id].client # clients[id].client
       IN /\ connects => (Cardinality(events) = 1 /\ replaced)
          /\ ~connects => (events = {} /\ ~replaced)]_vars
====
